---- MODULE Spec2Model ----
(***************************************************************************)
(* TxAnalyzerService (services/tx_analyzer.go): one ingestion goroutine    *)
(* reads transaction events from TxChannel, converts each to a message,    *)
(* wraps it in an EvaluateRequest and sends it to one buffered channel per *)
(* agent; one goroutine per agent (newAgentStream) ranges over its channel *)
(* and calls agent.Evaluate.  All goroutines run in an errgroup whose      *)
(* context derives from the service's context.                            *)
(***************************************************************************)
EXTENDS Naturals, Sequences, FiniteSets

VARIABLES
    envMode,        \* which environment drives the run: "free" or "scenario"
    numAgents,      \* len(t.agents)
    capacity,       \* buffer size of every agent channel
    txChannel,      \* t.cfg.TxChannel: the event the feed is sending, not yet received
    txClosed,       \* the feed has closed TxChannel
    emitted,        \* every event the feed has sent, in order
    parentDone,     \* t.ctx is cancelled (external shutdown)
    grpDone,        \* the errgroup has cancelled its derived context
    grpErr,         \* errgroup: the first non-nil error returned by a task
    returns,        \* the tasks' returns in order, <<task, error>>
    startPc,        \* Start: "setup", "wait", "returned"
    startResult,    \* what Start returned
    agentChannels,  \* the buffered channels, in configuration order
    closeCount,     \* per agent channel, how often close() was called on it
    ingestPc,       \* ingestion goroutine: "unborn","range","ctxcheck","translate","send","closing","done"
    ingestIdx,      \* index of the inner loop over agentChannels (send / deferred close)
    ingestErr,      \* the value the ingestion function is returning
    tx,             \* the event the ingestion loop holds
    request,        \* the request the ingestion loop holds
    allocated,      \* number of EvaluateRequests created so far
    workerPc,       \* per agent: "unborn","range","ctxcheck","call","done"
    workerReq,      \* per agent: the request of the current iteration
    evalCalls,      \* per agent: the requests passed to agent.Evaluate, in order
    placed,         \* per agent: number of requests sent on its channel
    removed,        \* per agent: number of requests received from its channel
    results         \* per agent: counts of log.Infof results and log.Error failures

vars == << envMode, numAgents, capacity, txChannel, txClosed, emitted, parentDone,
           grpDone, grpErr, returns, startPc, startResult, agentChannels, closeCount,
           ingestPc, ingestIdx, ingestErr, tx, request, allocated, workerPc,
           workerReq, evalCalls, placed, removed, results >>

envVars    == << envMode, numAgents, capacity >>
feedVars   == << txChannel, txClosed, emitted >>
grpVars    == << grpDone, grpErr, returns >>
startVars  == << startPc, startResult >>
ingestVars == << ingestPc, ingestIdx, ingestErr, tx, request, allocated >>
workerVars == << workerPc, workerReq, evalCalls, removed, results >>

----------------------------------------------------------------------------
(* Bounds of the model *)

MaxAgents == 2
MaxEvents == 2
QueueCap == 1

Nil == "nil"
Canceled == "context canceled"
NoTx == [seq |-> 0, kind |-> "none"]
NoRequest == [ptr |-> 0, RequestId |-> 0, Event |-> << >>]

Agents == 1..numAgents
EventKinds == {"good", "bad"}

----------------------------------------------------------------------------
(* Helpers *)

\* ctx.Err() of the errgroup's context: non-nil once the parent context or the
\* group itself is cancelled.
CtxErr == IF parentDone \/ grpDone THEN Canceled ELSE Nil

\* tx.ToMessage(): the canonical payload of an event, or an error.
ToMessage(t) ==
    IF t.kind = "good" THEN [msg |-> << "msg", t.seq >>, err |-> Nil]
                       ELSE [msg |-> << >>, err |-> "conversion error"]

\* uuid.NewUUID() and &protocol.EvaluateRequest{...}: a fresh identifier and a
\* freshly allocated request.
NewRequest(n, msg) == [ptr |-> n, RequestId |-> n, Event |-> msg]

\* Variant: the group cancels its context when any task returns.
GrpTaskReturnCancelAlways(task, err) ==
    /\ returns' = Append(returns, << task, err >>)
    /\ grpErr' = IF err # Nil /\ grpErr = Nil THEN err ELSE grpErr
    /\ grpDone' = TRUE

\* Variant: the group keeps the error but does not cancel its context.
GrpTaskReturnNoCancel(task, err) ==
    /\ returns' = Append(returns, << task, err >>)
    /\ grpErr' = IF err # Nil /\ grpErr = Nil THEN err ELSE grpErr
    /\ grpDone' = grpDone

\* errgroup.Group.Go wrapper: a task returning err; the first non-nil error is
\* kept and cancels the group's context.
GrpTaskReturn(task, err) ==
    /\ returns' = Append(returns, << task, err >>)
    /\ grpErr' = IF err # Nil /\ grpErr = Nil THEN err ELSE grpErr
    /\ grpDone' = (grpDone \/ err # Nil)

AllTasksDone ==
    /\ ingestPc = "done"
    /\ \A a \in Agents : workerPc[a] = "done"

----------------------------------------------------------------------------
(* Initial state: the service as NewTxAnalyzerService built it, Start not yet run *)

InitCommon ==
    /\ parentDone = FALSE
    /\ grpDone = FALSE
    /\ grpErr = Nil
    /\ returns = << >>
    /\ startPc = "setup"
    /\ startResult = Nil
    /\ agentChannels = << >>
    /\ closeCount = [a \in Agents |-> 0]
    /\ ingestPc = "unborn"
    /\ ingestIdx = 0
    /\ ingestErr = Nil
    /\ tx = NoTx
    /\ request = NoRequest
    /\ allocated = 0
    /\ workerPc = [a \in Agents |-> "unborn"]
    /\ workerReq = [a \in Agents |-> NoRequest]
    /\ evalCalls = [a \in Agents |-> << >>]
    /\ placed = [a \in Agents |-> 0]
    /\ removed = [a \in Agents |-> 0]
    /\ results = [a \in Agents |-> [ok |-> 0, failed |-> 0]]

Init ==
    /\ envMode = "free"
    /\ numAgents \in 0..MaxAgents
    /\ capacity = QueueCap
    /\ txChannel = << >>
    /\ txClosed = FALSE
    /\ emitted = << >>
    /\ InitCommon

\* The scenario of three agents with channels of capacity 2, of which the
\* second always times out, fed five well-formed events, without shutdown.
ScenarioInit ==
    /\ envMode = "scenario"
    /\ numAgents = 3
    /\ capacity = 2
    /\ txChannel = << >>
    /\ txClosed = FALSE
    /\ emitted = << >>
    /\ InitCommon

----------------------------------------------------------------------------
(* Environment: the transaction feed and the owner of t.ctx *)

EventLimit == IF envMode = "scenario" THEN 5 ELSE MaxEvents

\* The feed sends its next event on TxChannel.  The channel is modelled as
\* unbuffered: the feed holds at most one event in a pending send, which the
\* ingestion loop's receive completes.
FeedSend(kind) ==
    /\ ~txClosed
    /\ txChannel = << >>
    /\ Len(emitted) < EventLimit
    /\ envMode = "scenario" => kind = "good"
    /\ LET e == [seq |-> Len(emitted) + 1, kind |-> kind] IN
        /\ txChannel' = << e >>
        /\ emitted' = Append(emitted, e)
    /\ UNCHANGED << envVars, txClosed, parentDone, grpVars, startVars, agentChannels,
                    closeCount, ingestVars, workerVars, placed >>

FeedClose ==
    /\ ~txClosed
    /\ txChannel = << >>
    /\ envMode = "scenario" => Len(emitted) = EventLimit
    /\ txClosed' = TRUE
    /\ UNCHANGED << envVars, txChannel, emitted, parentDone, grpVars, startVars,
                    agentChannels, closeCount, ingestVars, workerVars, placed >>

CancelParent ==
    /\ envMode = "free"
    /\ ~parentDone
    /\ startPc # "returned"
    /\ parentDone' = TRUE
    /\ UNCHANGED << envVars, feedVars, grpVars, startVars, agentChannels, closeCount,
                    ingestVars, workerVars, placed >>

----------------------------------------------------------------------------
(* Start *)

\* Variant: the channel is made but no worker is started on it.
StartAgentNoWorker ==
    /\ startPc = "setup"
    /\ Len(agentChannels) < numAgents
    /\ agentChannels' = Append(agentChannels, << >>)
    /\ UNCHANGED << envVars, feedVars, parentDone, grpVars, startVars, closeCount,
                    ingestVars, workerVars, placed >>

\* One iteration of the loop over t.agents: make the channel, start the worker.
StartAgent ==
    /\ startPc = "setup"
    /\ Len(agentChannels) < numAgents
    /\ LET a == Len(agentChannels) + 1 IN
        /\ agentChannels' = Append(agentChannels, << >>)
        /\ workerPc' = [workerPc EXCEPT ![a] = "range"]
    /\ UNCHANGED << envVars, feedVars, parentDone, grpVars, startVars, closeCount,
                    ingestVars, workerReq, evalCalls, removed, results, placed >>

\* grp.Go(func() error {...}) for the ingestion loop; Start then blocks in Wait.
StartIngest ==
    /\ startPc = "setup"
    /\ Len(agentChannels) = numAgents
    /\ startPc' = "wait"
    /\ ingestPc' = "range"
    /\ UNCHANGED << envVars, feedVars, parentDone, grpVars, startResult, agentChannels,
                    closeCount, ingestIdx, ingestErr, tx, request, allocated,
                    workerVars, placed >>

\* grp.Wait(): returns once every task has returned; cancels the context and
\* yields the first error.
StartWait ==
    /\ startPc = "wait"
    /\ AllTasksDone
    /\ startPc' = "returned"
    /\ startResult' = grpErr
    /\ grpDone' = TRUE
    /\ UNCHANGED << envVars, feedVars, parentDone, grpErr, returns, agentChannels,
                    closeCount, ingestVars, workerVars, placed >>

----------------------------------------------------------------------------
(* Channel operations *)

\* Variant: a receive takes the newest buffered element.
RecvIndexNewest(q) == Len(q)

\* Variant: a send never waits for room.
CanSendAlways(q) == TRUE

\* A send on a buffered channel proceeds only while the buffer has room.
CanSend(q) == Len(q) < capacity

\* A receive takes the oldest buffered element.
RecvIndex(q) == 1

ChanRecv(q) == q[RecvIndex(q)]

ChanRest(q) == [i \in 1..(Len(q) - 1) |-> IF i < RecvIndex(q) THEN q[i] ELSE q[i + 1]]

----------------------------------------------------------------------------
(* The ingestion goroutine *)

\* for tx := range t.cfg.TxChannel: receive the next event, or leave the loop
\* when the channel is closed and empty (return nil, then the deferred closes).
IngestRange ==
    /\ ingestPc = "range"
    /\ \/ /\ txChannel # << >>
          /\ tx' = Head(txChannel)
          /\ txChannel' = Tail(txChannel)
          /\ ingestPc' = "ctxcheck"
          /\ UNCHANGED << ingestIdx, ingestErr >>
       \/ /\ txChannel = << >>
          /\ txClosed
          /\ ingestErr' = Nil
          /\ ingestIdx' = 1
          /\ ingestPc' = "closing"
          /\ UNCHANGED << tx, txChannel >>
    /\ UNCHANGED << envVars, txClosed, emitted, parentDone, grpVars, startVars,
                    agentChannels, closeCount, request, allocated, workerVars, placed >>

\* Variant: the loop does not look at the context.
IngestCtxCheckNever ==
    /\ ingestPc = "ctxcheck"
    /\ ingestPc' = "translate"
    /\ UNCHANGED << ingestErr, ingestIdx >>
    /\ UNCHANGED << envVars, feedVars, parentDone, grpVars, startVars, agentChannels,
                    closeCount, tx, request, allocated, workerVars, placed >>

\* Variant: on cancellation the loop returns without the channels being closed.
IngestCtxCheckNoClose ==
    /\ ingestPc = "ctxcheck"
    /\ IF CtxErr # Nil
          THEN /\ ingestErr' = CtxErr
               /\ ingestIdx' = numAgents + 1
               /\ ingestPc' = "closing"
          ELSE /\ ingestPc' = "translate"
               /\ UNCHANGED << ingestErr, ingestIdx >>
    /\ UNCHANGED << envVars, feedVars, parentDone, grpVars, startVars, agentChannels,
                    closeCount, tx, request, allocated, workerVars, placed >>

\* if ctx.Err() != nil { return ctx.Err() }
IngestCtxCheck ==
    /\ ingestPc = "ctxcheck"
    /\ IF CtxErr # Nil
          THEN /\ ingestErr' = CtxErr
               /\ ingestIdx' = 1
               /\ ingestPc' = "closing"
          ELSE /\ ingestPc' = "translate"
               /\ UNCHANGED << ingestErr, ingestIdx >>
    /\ UNCHANGED << envVars, feedVars, parentDone, grpVars, startVars, agentChannels,
                    closeCount, tx, request, allocated, workerVars, placed >>

\* Variant: a conversion error ends the loop with that error.
IngestTranslateFatal ==
    /\ ingestPc = "translate"
    /\ LET r == ToMessage(tx) IN
        IF r.err # Nil
           THEN /\ ingestPc' = "closing"
                /\ ingestErr' = r.err
                /\ ingestIdx' = 1
                /\ UNCHANGED << request, allocated >>
           ELSE /\ request' = NewRequest(allocated + 1, r.msg)
                /\ allocated' = allocated + 1
                /\ ingestIdx' = 1
                /\ ingestPc' = IF numAgents = 0 THEN "range" ELSE "send"
                /\ UNCHANGED ingestErr
    /\ UNCHANGED << envVars, feedVars, parentDone, grpVars, startVars, agentChannels,
                    closeCount, tx, workerVars, placed >>

\* msg, err := tx.ToMessage(); on error log and continue; otherwise create the
\* request and enter the loop over agentChannels.
IngestTranslate ==
    /\ ingestPc = "translate"
    /\ LET r == ToMessage(tx) IN
        IF r.err # Nil
           THEN /\ ingestPc' = "range"
                /\ UNCHANGED << request, allocated, ingestIdx >>
           ELSE /\ request' = NewRequest(allocated + 1, r.msg)
                /\ allocated' = allocated + 1
                /\ ingestIdx' = 1
                /\ ingestPc' = IF numAgents = 0 THEN "range" ELSE "send"
    /\ UNCHANGED << envVars, feedVars, parentDone, grpVars, startVars, agentChannels,
                    closeCount, ingestErr, tx, workerVars, placed >>

\* Variant: each channel gets a copy of the request allocated for it.
IngestSendCopy ==
    /\ ingestPc = "send"
    /\ CanSend(agentChannels[ingestIdx])
    /\ agentChannels' = [agentChannels EXCEPT ![ingestIdx] =
            Append(@, [request EXCEPT !.ptr = request.ptr + 100 * ingestIdx])]
    /\ placed' = [placed EXCEPT ![ingestIdx] = @ + 1]
    /\ IF ingestIdx = numAgents
          THEN ingestPc' = "range" /\ UNCHANGED ingestIdx
          ELSE ingestIdx' = ingestIdx + 1 /\ UNCHANGED ingestPc
    /\ UNCHANGED << envVars, feedVars, parentDone, grpVars, startVars, closeCount,
                    ingestErr, tx, request, allocated, workerVars >>

\* Variant: the request is created inside the loop over the channels, so each
\* agent gets a request with an identifier of its own.
IngestSendOwnId ==
    /\ ingestPc = "send"
    /\ CanSend(agentChannels[ingestIdx])
    /\ agentChannels' = [agentChannels EXCEPT ![ingestIdx] =
            Append(@, [request EXCEPT !.RequestId = << request.RequestId, ingestIdx >>])]
    /\ placed' = [placed EXCEPT ![ingestIdx] = @ + 1]
    /\ IF ingestIdx = numAgents
          THEN ingestPc' = "range" /\ UNCHANGED ingestIdx
          ELSE ingestIdx' = ingestIdx + 1 /\ UNCHANGED ingestPc
    /\ UNCHANGED << envVars, feedVars, parentDone, grpVars, startVars, closeCount,
                    ingestErr, tx, request, allocated, workerVars >>

\* agtCh <- request, for the channel at ingestIdx; blocks while it is full.
\* (A send on a closed channel would panic; the action does not exclude one.)
IngestSend ==
    /\ ingestPc = "send"
    /\ CanSend(agentChannels[ingestIdx])
    /\ agentChannels' = [agentChannels EXCEPT ![ingestIdx] = Append(@, request)]
    /\ placed' = [placed EXCEPT ![ingestIdx] = @ + 1]
    /\ IF ingestIdx = numAgents
          THEN ingestPc' = "range" /\ UNCHANGED ingestIdx
          ELSE ingestIdx' = ingestIdx + 1 /\ UNCHANGED ingestPc
    /\ UNCHANGED << envVars, feedVars, parentDone, grpVars, startVars, closeCount,
                    ingestErr, tx, request, allocated, workerVars >>

\* Variant: the function returns without closing the channel.
IngestCloseMissing ==
    /\ ingestPc = "closing"
    /\ ingestIdx <= numAgents
    /\ ingestIdx' = ingestIdx + 1
    /\ UNCHANGED << envVars, feedVars, parentDone, grpVars, startVars, agentChannels,
                    closeCount, ingestPc, ingestErr, tx, request, allocated, workerVars,
                    placed >>

\* The deferred function: close(agtCh) for the channel at ingestIdx.
IngestClose ==
    /\ ingestPc = "closing"
    /\ ingestIdx <= numAgents
    /\ closeCount' = [closeCount EXCEPT ![ingestIdx] = @ + 1]
    /\ ingestIdx' = ingestIdx + 1
    /\ UNCHANGED << envVars, feedVars, parentDone, grpVars, startVars, agentChannels,
                    ingestPc, ingestErr, tx, request, allocated, workerVars, placed >>

\* The ingestion function returns to the errgroup after the deferred closes.
IngestReturn ==
    /\ ingestPc = "closing"
    /\ ingestIdx > numAgents
    /\ ingestPc' = "done"
    /\ GrpTaskReturn(0, ingestErr)
    /\ UNCHANGED << envVars, feedVars, parentDone, startVars, agentChannels, closeCount,
                    ingestIdx, ingestErr, tx, request, allocated, workerVars, placed >>

----------------------------------------------------------------------------
(* The agent goroutines (newAgentStream) *)

\* for request := range input: receive the next request, or return nil when
\* the channel is closed and drained.
WorkerRange(a) ==
    /\ workerPc[a] = "range"
    /\ \/ /\ agentChannels[a] # << >>
          /\ workerReq' = [workerReq EXCEPT ![a] = ChanRecv(agentChannels[a])]
          /\ agentChannels' = [agentChannels EXCEPT ![a] = ChanRest(@)]
          /\ removed' = [removed EXCEPT ![a] = @ + 1]
          /\ workerPc' = [workerPc EXCEPT ![a] = "ctxcheck"]
          /\ UNCHANGED grpVars
       \/ /\ agentChannels[a] = << >>
          /\ closeCount[a] > 0
          /\ workerPc' = [workerPc EXCEPT ![a] = "done"]
          /\ GrpTaskReturn(a, Nil)
          /\ UNCHANGED << workerReq, agentChannels, removed >>
    /\ UNCHANGED << envVars, feedVars, parentDone, startVars, closeCount, ingestVars,
                    evalCalls, results, placed >>

\* Variant: a worker that sees the context cancelled returns nil.
WorkerCtxCheckReturnNil(a) ==
    /\ workerPc[a] = "ctxcheck"
    /\ IF CtxErr # Nil
          THEN /\ workerPc' = [workerPc EXCEPT ![a] = "done"]
               /\ GrpTaskReturn(a, Nil)
               /\ UNCHANGED evalCalls
          ELSE /\ workerPc' = [workerPc EXCEPT ![a] = "call"]
               /\ evalCalls' = [evalCalls EXCEPT ![a] = Append(@, workerReq[a])]
               /\ UNCHANGED grpVars
    /\ UNCHANGED << envVars, feedVars, parentDone, startVars, agentChannels, closeCount,
                    ingestVars, workerReq, removed, results, placed >>

\* Variant: a worker that sees the context cancelled closes its channel.
WorkerCtxCheckCloses(a) ==
    /\ workerPc[a] = "ctxcheck"
    /\ IF CtxErr # Nil
          THEN /\ workerPc' = [workerPc EXCEPT ![a] = "done"]
               /\ closeCount' = [closeCount EXCEPT ![a] = @ + 1]
               /\ GrpTaskReturn(a, CtxErr)
               /\ UNCHANGED evalCalls
          ELSE /\ workerPc' = [workerPc EXCEPT ![a] = "call"]
               /\ evalCalls' = [evalCalls EXCEPT ![a] = Append(@, workerReq[a])]
               /\ UNCHANGED << grpVars, closeCount >>
    /\ UNCHANGED << envVars, feedVars, parentDone, startVars, agentChannels,
                    ingestVars, workerReq, removed, results, placed >>

\* Variant: the worker does not look at the context before calling.
WorkerCtxCheckNever(a) ==
    /\ workerPc[a] = "ctxcheck"
    /\ workerPc' = [workerPc EXCEPT ![a] = "call"]
    /\ evalCalls' = [evalCalls EXCEPT ![a] = Append(@, workerReq[a])]
    /\ UNCHANGED grpVars
    /\ UNCHANGED << envVars, feedVars, parentDone, startVars, agentChannels, closeCount,
                    ingestVars, workerReq, removed, results, placed >>

\* if ctx.Err() != nil { return ctx.Err() }; otherwise derive the 5 s timeout
\* context and issue agent.Evaluate(ctx, request).
WorkerCtxCheck(a) ==
    /\ workerPc[a] = "ctxcheck"
    /\ IF CtxErr # Nil
          THEN /\ workerPc' = [workerPc EXCEPT ![a] = "done"]
               /\ GrpTaskReturn(a, CtxErr)
               /\ UNCHANGED evalCalls
          ELSE /\ workerPc' = [workerPc EXCEPT ![a] = "call"]
               /\ evalCalls' = [evalCalls EXCEPT ![a] = Append(@, workerReq[a])]
               /\ UNCHANGED grpVars
    /\ UNCHANGED << envVars, feedVars, parentDone, startVars, agentChannels, closeCount,
                    ingestVars, workerReq, removed, results, placed >>

\* Variant: the call runs under a context of its own, which only its timeout ends.
CallOutcomesDetached(a) ==
    IF envMode = "scenario"
       THEN (IF a = 2 THEN {"timeout"} ELSE {"ok"})
       ELSE {"ok", "rpc error", "timeout", "marshal error"}

\* The outcomes agent.Evaluate followed by MarshalToString can have.  The call
\* runs under a context derived from the group's, so it also ends with an
\* error when that context is cancelled.
CallOutcomes(a) ==
    IF envMode = "scenario"
       THEN (IF a = 2 THEN {"timeout"} ELSE {"ok"})
       ELSE {"ok", "rpc error", "timeout", "marshal error"}
            \cup (IF CtxErr # Nil THEN {"canceled"} ELSE {})

\* Variant: a failed call is issued again for the same request.
AfterCallRetry(a, outcome) == IF outcome = "ok" THEN "range" ELSE "ctxcheck"

\* Variant: a failed call ends the worker's loop.
AfterCallStopOnError(a, outcome) == IF outcome = "ok" THEN "range" ELSE "stopped"

\* Where the worker goes after a call: a failure is logged and the loop
\* continues, a success is logged and the loop continues.
AfterCall(a, outcome) == "range"

\* Variant: the worker returns the error of a failed call to the group.
WorkerCallReturnFatal(a, outcome) ==
    /\ workerPc[a] = "call"
    /\ outcome \in CallOutcomes(a)
    /\ results' = [results EXCEPT ![a] =
                      IF outcome = "ok" THEN [@ EXCEPT !.ok = @ + 1]
                                        ELSE [@ EXCEPT !.failed = @ + 1]]
    /\ IF outcome = "ok"
          THEN /\ workerPc' = [workerPc EXCEPT ![a] = "range"]
               /\ UNCHANGED grpVars
          ELSE /\ workerPc' = [workerPc EXCEPT ![a] = "done"]
               /\ GrpTaskReturn(a, outcome)
    /\ UNCHANGED << envVars, feedVars, parentDone, startVars, agentChannels,
                    closeCount, ingestVars, workerReq, evalCalls, removed, placed >>

\* resp, err := agent.Evaluate(ctx, request) returns; log the result or the error.
WorkerCallReturn(a, outcome) ==
    /\ workerPc[a] = "call"
    /\ outcome \in CallOutcomes(a)
    /\ results' = [results EXCEPT ![a] =
                      IF outcome = "ok" THEN [@ EXCEPT !.ok = @ + 1]
                                        ELSE [@ EXCEPT !.failed = @ + 1]]
    /\ workerPc' = [workerPc EXCEPT ![a] = AfterCall(a, outcome)]
    /\ UNCHANGED << envVars, feedVars, parentDone, grpVars, startVars, agentChannels,
                    closeCount, ingestVars, workerReq, evalCalls, removed, placed >>

----------------------------------------------------------------------------
(* Specifications *)

EnvStep ==
    \/ \E kind \in EventKinds : FeedSend(kind)
    \/ FeedClose
    \/ CancelParent

StartStep ==
    \/ StartAgent
    \/ StartIngest
    \/ StartWait

IngestStep ==
    \/ IngestRange
    \/ IngestCtxCheck
    \/ IngestTranslate
    \/ IngestSend
    \/ IngestClose
    \/ IngestReturn

WorkerStep(a) ==
    \/ WorkerRange(a)
    \/ WorkerCtxCheck(a)
    \/ \E outcome \in {"ok", "rpc error", "timeout", "marshal error", "canceled"} :
          WorkerCallReturn(a, outcome)

Next ==
    \/ EnvStep
    \/ StartStep
    \/ IngestStep
    \/ \E a \in Agents : WorkerStep(a)

Spec == Init /\ [][Next]_vars

\* The free runs together with the runs of the scenario.
ScenarioSpec == (Init \/ ScenarioInit) /\ [][Next]_vars

\* The Go scheduler runs every goroutine that can take a step, and every
\* Evaluate call returns (at the latest when its 5 s timeout expires).  Nothing
\* is assumed of the feed or of the owner of the parent context.
Fairness ==
    /\ WF_vars(StartStep)
    /\ WF_vars(IngestStep)
    /\ \A a \in 1..MaxAgents : WF_vars(a \in Agents /\ WorkerStep(a))

FairSpec == Init /\ [][Next]_vars /\ Fairness

----------------------------------------------------------------------------
(* Derived quantities used by the properties *)

\* The events the ingestion loop has received from TxChannel, in order.
Taken == SubSeq(emitted, 1, Len(emitted) - Len(txChannel))

TakenCount == Len(Taken)

\* The received events that ToMessage converts.
GoodTaken == {i \in 1..TakenCount : ToMessage(emitted[i]).err = Nil}

\* The Evaluate calls of agent a that carry the payload of event e.
CallsFor(a, e) == {i \in DOMAIN evalCalls[a] : evalCalls[a][i].Event = ToMessage(e).msg}

\* The position in the source of the event a request was made from.
SourceSeq(r) == r.Event[2]

\* The signal every task reads through ctx.Err().
Cancelled == CtxErr # Nil

----------------------------------------------------------------------------
(* C1: when Start has returned and the parent context was never cancelled
   (the source was then exhausted), every received event that converts was
   passed to exactly one Evaluate call by each of the N agents, all N calls
   carry the same request (identifier and payload), and no other call was
   made; with no agents there are no calls. *)
C1_FanOut ==
    (startPc = "returned" /\ ~parentDone) =>
        /\ txClosed /\ txChannel = << >>
        /\ \A i \in GoodTaken : \A a \in Agents :
              Cardinality(CallsFor(a, emitted[i])) = 1
        /\ \A i \in GoodTaken : \A a, b \in Agents :
              \A ca \in CallsFor(a, emitted[i]) : \A cb \in CallsFor(b, emitted[i]) :
                 /\ evalCalls[a][ca].RequestId = evalCalls[b][cb].RequestId
                 /\ evalCalls[a][ca].Event = evalCalls[b][cb].Event
        /\ \A a \in Agents : Len(evalCalls[a]) = Cardinality(GoodTaken)

C1_Witness ==
    /\ startPc = "returned" /\ ~parentDone
    /\ numAgents >= 2
    /\ Cardinality(GoodTaken) >= 2

(* C2: for every agent, the Evaluate calls are issued in source order: a call
   for an earlier event precedes the call for a later one. *)
C2_Fifo ==
    \A a \in Agents : \A i, j \in DOMAIN evalCalls[a] :
        i < j => SourceSeq(evalCalls[a][i]) < SourceSeq(evalCalls[a][j])

\* A worker issues its second call while two further requests wait in its channel.
C2_Witness ==
    \E a \in Agents :
        /\ Len(evalCalls[a]) >= 2
        /\ workerPc[a] = "call"
        /\ Len(agentChannels[a]) >= 2

(* C3: once the feed has closed TxChannel, unless the parent context is
   cancelled, eventually every agent channel is closed and drained, every task
   has returned and Start has returned nil. *)
C3_Drained ==
    /\ startPc = "returned"
    /\ startResult = Nil
    /\ AllTasksDone
    /\ \A a \in Agents : closeCount[a] = 1 /\ agentChannels[a] = << >>

C3_Exhaustion == txClosed ~> (parentDone \/ C3_Drained)

C3_Witness ==
    /\ C3_Drained /\ ~parentDone
    /\ numAgents >= 2
    /\ \E a \in Agents : results[a].failed >= 1

(* C4: once the context is cancelled, Start eventually returns. *)
C4_CancelTerminates == parentDone ~> (startPc = "returned")

C6_FailureStep ==
    (ingestPc = "translate" /\ ToMessage(tx).err # Nil /\ ingestPc' # ingestPc) =>
        /\ ingestPc' = "range"
        /\ UNCHANGED << agentChannels, closeCount, placed, allocated, request >>
        /\ UNCHANGED << workerVars, grpVars, parentDone, startVars >>

C6_NoTrace ==
    /\ \A a \in Agents : \A i \in DOMAIN evalCalls[a] :
          ToMessage(emitted[SourceSeq(evalCalls[a][i])]).err = Nil
    /\ \A a \in DOMAIN agentChannels : \A i \in DOMAIN agentChannels[a] :
          ToMessage(emitted[SourceSeq(agentChannels[a][i])]).err = Nil

C6_LaterEvents ==
    (startPc = "returned" /\ ~parentDone) =>
        \A a \in Agents :
            { SourceSeq(evalCalls[a][i]) : i \in DOMAIN evalCalls[a] } = GoodTaken

C6_TranslationFailure ==
    /\ [][C6_FailureStep]_vars
    /\ [](C6_NoTrace /\ C6_LaterEvents)

\* After a failing first event, the second event was evaluated by two agents.
C6_Witness ==
    /\ Len(emitted) >= 2
    /\ ToMessage(emitted[1]).err # Nil
    /\ numAgents >= 2
    /\ \A a \in Agents : Len(evalCalls[a]) = 1 /\ SourceSeq(evalCalls[a][1]) = 2
    /\ ~parentDone /\ startResult = Nil /\ startPc = "returned"

(* C7: a failed call (its failure is logged) returns the worker to the head
   of its loop and changes neither the cancellation state, nor any channel,
   nor any other worker; without external cancellation every worker has
   evaluated every request in source order when Start returns.  In the
   scenario, when Start returns it returns nil, agents 1 and 3 have logged five
   results for events 1..5 in order and agent 2 five failures. *)
C7_FailedCallStep ==
    \A a \in Agents :
        (workerPc[a] = "call" /\ results'[a].failed # results[a].failed) =>
            /\ workerPc'[a] = "range"
            /\ \A b \in Agents \ {a} :
                  /\ workerPc'[b] = workerPc[b]
                  /\ evalCalls'[b] = evalCalls[b]
                  /\ results'[b] = results[b]
            /\ UNCHANGED << grpVars, parentDone, agentChannels, closeCount,
                            ingestVars, startVars >>

C7_AllEvaluated ==
    (startPc = "returned" /\ ~parentDone) =>
        \A a \in Agents :
            /\ Len(evalCalls[a]) = Cardinality(GoodTaken)
            /\ results[a].ok + results[a].failed = Cardinality(GoodTaken)
            /\ \A i, j \in DOMAIN evalCalls[a] :
                  i < j => SourceSeq(evalCalls[a][i]) < SourceSeq(evalCalls[a][j])

C7_Scenario ==
    (envMode = "scenario" /\ startPc = "returned") =>
        /\ startResult = Nil
        /\ Len(emitted) = 5
        /\ \A a \in Agents :
              /\ [i \in DOMAIN evalCalls[a] |-> SourceSeq(evalCalls[a][i])] = << 1, 2, 3, 4, 5 >>
              /\ results[a] = IF a = 2 THEN [ok |-> 0, failed |-> 5]
                                       ELSE [ok |-> 5, failed |-> 0]

C7_FailureIsolation ==
    /\ [][C7_FailedCallStep]_vars
    /\ [](C7_AllEvaluated /\ C7_Scenario)

C7_Witness ==
    /\ envMode = "scenario" /\ startPc = "returned"
    /\ results[2].failed = 5

(* C8: when the ingestion function has returned, every agent channel has been
   closed exactly once; no channel is ever closed twice. *)
C8_ClosedOnce ==
    /\ \A a \in Agents : closeCount[a] <= 1
    /\ ingestPc = "done" => \A a \in Agents : closeCount[a] = 1

\* The loop left on cancellation and the function has returned.
C8_Witness ==
    /\ ingestPc = "done" /\ ingestErr = Canceled
    /\ numAgents >= 2
    /\ \A a \in Agents : closeCount[a] = 1

(* C9: Start returns only after every task has returned; it returns the first
   non-nil error a task returned, or nil if there is none; and from the moment
   a task has returned an error the group's context is cancelled. *)
FirstError(rs) ==
    IF \E i \in DOMAIN rs : rs[i][2] # Nil
       THEN LET k == CHOOSE i \in DOMAIN rs :
                        /\ rs[i][2] # Nil
                        /\ \A j \in DOMAIN rs : rs[j][2] # Nil => i <= j
            IN rs[k][2]
       ELSE Nil

C9_FirstError ==
    /\ startPc = "returned" =>
          /\ AllTasksDone
          /\ Len(returns) = numAgents + 1
          /\ { returns[i][1] : i \in DOMAIN returns } = 0..numAgents
          /\ startResult = FirstError(returns)
    /\ (\E i \in DOMAIN returns : returns[i][2] # Nil) => grpDone

\* A worker returned the first error while other tasks were still running.
C9_Witness ==
    /\ Len(returns) = 1 /\ returns[1][2] = Canceled /\ returns[1][1] # 0
    /\ numAgents >= 2
    /\ ingestPc \notin {"closing", "done"}
    /\ grpDone

(* C10: backpressure.  The loop receives the next event only after the current
   request is on every channel; a send happens only on a channel with room, so
   no channel ever holds more than its capacity; the converting events
   received exceed the requests any one worker received by at most capacity
   plus one; the numbers of sends on any two channels differ by at most one. *)
C10_State ==
    /\ \A a \in DOMAIN agentChannels : Len(agentChannels[a]) <= capacity
    /\ \A a \in Agents : Cardinality(GoodTaken) <= removed[a] + capacity + 1
    /\ \A a, b \in Agents : placed[a] <= placed[b] + 1
    /\ ingestPc \in {"range", "ctxcheck", "translate"} =>
          \A a \in Agents : placed[a] = allocated

C10_Step ==
    /\ TakenCount' # TakenCount => \A a \in Agents : placed[a] = allocated
    /\ \A a \in Agents :
          placed'[a] # placed[a] => Len(agentChannels[a]) < capacity

C10_Backpressure == [][C10_Step]_vars /\ []C10_State

\* The loop is blocked on a full channel with the bound attained.
C10_Witness ==
    /\ ingestPc = "send"
    /\ ~CanSend(agentChannels[ingestIdx])
    /\ Cardinality(GoodTaken) = removed[ingestIdx] + capacity + 1
    /\ numAgents >= 2
    /\ placed[1] = placed[2] + 1

(* C11: no retry.  For every agent the requests passed to Evaluate are
   pairwise distinct, also after failed calls; everything that was ever sent on
   an agent's channel (evaluated, held by the worker, or still buffered) is
   pairwise distinct and in creation order, so nothing received is sent again;
   only the ingestion loop's send step adds to a channel; and every conversion
   is of an event just received, so a failing event is not converted again. *)
EverSent(a) ==
    evalCalls[a]
      \o (IF workerPc[a] \in {"ctxcheck", "done"} /\ removed[a] > Len(evalCalls[a])
             THEN << workerReq[a] >> ELSE << >>)
      \o (IF a \in DOMAIN agentChannels THEN agentChannels[a] ELSE << >>)

C11_State ==
    /\ \A a \in Agents : \A i, j \in DOMAIN evalCalls[a] :
          i # j => evalCalls[a][i].RequestId # evalCalls[a][j].RequestId
    /\ \A a \in Agents :
          /\ Len(EverSent(a)) = placed[a]
          /\ \A i, j \in DOMAIN EverSent(a) :
                i < j => EverSent(a)[i].RequestId < EverSent(a)[j].RequestId
    /\ \A a \in Agents : Len(evalCalls[a]) <= removed[a]
    /\ allocated <= Cardinality(GoodTaken)

C11_Step ==
    /\ \A a \in Agents :
          (a \in DOMAIN agentChannels /\ Len(agentChannels'[a]) > Len(agentChannels[a])) =>
              /\ ingestPc = "send" /\ ingestIdx = a
              /\ placed'[a] = placed[a] + 1
              /\ UNCHANGED << workerVars, allocated >>
    /\ (ingestPc' = "translate" /\ ingestPc # "translate") =>
          /\ ingestPc = "ctxcheck"
          /\ tx = emitted[TakenCount]
    /\ (ingestPc' = "ctxcheck" /\ ingestPc # "ctxcheck") =>
          /\ TakenCount' = TakenCount + 1
          /\ tx' = emitted[TakenCount']
    /\ (ingestPc = "translate" /\ ingestPc' # "translate") =>
          ingestPc' \in {"range", "send"}

C11_NoRetry == [][C11_Step]_vars /\ []C11_State

\* After a failed call, a worker is in its next call.
C11_Witness ==
    \E a \in Agents :
        /\ results[a].failed >= 1
        /\ Len(evalCalls[a]) = 2
        /\ workerPc[a] = "call"

(* C12 as stated: no two workers ever hold a reference to the same request
   instance. *)
HeldBy(a) == { EverSent(a)[i].ptr : i \in DOMAIN EverSent(a) }

C12_NoSharedInstance ==
    \A a, b \in Agents : a # b => HeldBy(a) \cap HeldBy(b) = {}

(* C12 as amended: one request instance is allocated per converting event, and
   the entries sent on the N channels are N references to that one instance;
   the instance is never changed after its creation; a worker receives only
   from its own channel. *)
C12_State ==
    /\ \A a, b \in Agents :
          \A i \in DOMAIN EverSent(a) : \A j \in DOMAIN EverSent(b) :
              LET x == EverSent(a)[i]
                  y == EverSent(b)[j]
              IN /\ SourceSeq(x) = SourceSeq(y) => x.ptr = y.ptr
                 /\ x.ptr = y.ptr => x = y
    /\ \A a \in Agents : \A i \in DOMAIN EverSent(a) :
          LET x == EverSent(a)[i]
          IN /\ x.ptr \in 1..allocated
             /\ x = NewRequest(x.ptr, ToMessage(emitted[SourceSeq(x)]).msg)

C12_Step ==
    \A a \in Agents :
        removed'[a] # removed[a] =>
            /\ workerReq'[a] = Head(agentChannels[a])
            /\ agentChannels'[a] = Tail(agentChannels[a])
            /\ \A b \in Agents \ {a} :
                  agentChannels'[b] = agentChannels[b] /\ workerReq'[b] = workerReq[b]

C12_SharedInstance == [][C12_Step]_vars /\ []C12_State

\* Two workers are evaluating the same request instance at the same time.
C12_Witness ==
    /\ numAgents >= 2
    /\ workerPc[1] = "call" /\ workerPc[2] = "call"
    /\ workerReq[1].ptr = workerReq[2].ptr

(* C13 as stated: once the ingestion loop has seen the end of the source, the
   cancellation signal is set. *)
SeenEndOfSource == ingestPc \in {"closing", "done"} /\ ingestErr = Nil

C13_ExhaustionCancels == SeenEndOfSource => Cancelled

(* C13 as amended: the end of the source does not raise the signal.  The loop
   returns nil and closes the channels with the signal unchanged; the group's
   context is cancelled only once a task has returned an error or Start has
   returned, and without external shutdown the signal stays unset until Start
   returns. *)
C13_State ==
    /\ grpDone => ((\E i \in DOMAIN returns : returns[i][2] # Nil) \/ startPc = "returned")
    /\ (Cancelled /\ ~parentDone) => startPc = "returned"

C13_Step ==
    /\ (ingestPc = "range" /\ ingestPc' = "closing") =>
          UNCHANGED << grpDone, parentDone >>
    /\ (ingestPc = "closing" /\ ingestErr = Nil) =>
          (grpDone' = grpDone \/ ingestPc' = "closing")

C13_ExhaustionDoesNotCancel == [][C13_Step]_vars /\ []C13_State

\* The loop has returned at the end of the source and a worker is still
\* evaluating, with the signal unset.
C13_Witness ==
    /\ ingestPc = "done" /\ ingestErr = Nil
    /\ ~Cancelled
    /\ \E a \in Agents : workerPc[a] = "call" /\ agentChannels[a] # << >>

(* C14 as stated: a call in flight can end only by the agent's response or by
   its own timeout, never by the cancellation of the shared context. *)
C14_NoForcedEnd ==
    \A a \in Agents :
        workerPc[a] = "call" => ~ENABLED WorkerCallReturn(a, "canceled")

(* C14 as amended: the context of a call derives from the shared context, so a
   call in flight can end with a cancellation error exactly when the shared
   signal is set; that end is logged as a failed call and the worker returns
   to the head of its loop. *)
C14_State ==
    \A a \in Agents :
        ENABLED WorkerCallReturn(a, "canceled") <=> (workerPc[a] = "call" /\ Cancelled)

C14_Step ==
    \A a \in Agents :
        (workerPc[a] = "call" /\ Cancelled /\ workerPc'[a] # "call") =>
            /\ workerPc'[a] = "range"
            /\ results'[a].ok + results'[a].failed = results[a].ok + results[a].failed + 1
            /\ UNCHANGED << grpVars, evalCalls, agentChannels >>

C14_CancelEndsCall == [][C14_Step]_vars /\ []C14_State

\* The shared context was cancelled while a call is in flight.
C14_Witness ==
    \E a \in Agents :
        /\ workerPc[a] = "call"
        /\ parentDone
        /\ ~grpDone

(* C15: as long as the parent context is not cancelled, no task has returned
   an error, the group holds no error and its context is not cancelled before
   Start returns, whatever conversions and calls have failed; an error
   returned by Start implies that the parent context was cancelled. *)
C15_OnlyShutdownFails ==
    /\ ~parentDone =>
          /\ grpErr = Nil
          /\ \A i \in DOMAIN returns : returns[i][2] = Nil
          /\ startPc # "returned" => ~grpDone
          /\ startPc = "returned" => startResult = Nil
    /\ (startPc = "returned" /\ startResult # Nil) =>
          (parentDone /\ startResult = Canceled)

\* Start returned nil after a failed conversion and a failed call by each agent.
C15_Witness ==
    /\ startPc = "returned" /\ startResult = Nil /\ ~parentDone
    /\ \E i \in 1..TakenCount : ToMessage(emitted[i]).err # Nil
    /\ numAgents >= 2
    /\ \A a \in Agents : results[a].failed >= 1

(* C16 as stated: a worker that had a call in flight while the signal was set
   issues no further call and, when it returns, returns the cancellation
   error. *)
InFlightCancelled(a) == a \in Agents /\ workerPc[a] = "call" /\ Cancelled

CallCount(a) == IF a \in Agents THEN Len(evalCalls[a]) ELSE 0

ReturnedWith(a, err) == \E i \in DOMAIN returns : returns[i] = << a, err >>

HasReturned(a) == a \in Agents /\ workerPc[a] = "done"

C16_ReturnsCancelError ==
    \A a \in 1..MaxAgents : \A n \in 0..MaxEvents :
        [](InFlightCancelled(a) /\ CallCount(a) = n =>
              [](/\ CallCount(a) = n
                 /\ HasReturned(a) => ReturnedWith(a, Canceled)))

(* C16 as amended: once the signal is set no worker issues a further call.  A
   worker that receives a request while the signal is set drops it and
   returns the cancellation error; a worker that finds its channel closed and
   empty returns nil, also when the signal is set.  So a worker returns the
   cancellation error exactly if it dropped a request it had received. *)
C16_Step ==
    \A a \in Agents :
        /\ Cancelled => evalCalls'[a] = evalCalls[a]
        /\ (Cancelled /\ workerPc[a] = "ctxcheck" /\ workerPc'[a] # "ctxcheck") =>
              /\ workerPc'[a] = "done"
              /\ returns' = Append(returns, << a, Canceled >>)
        /\ (workerPc[a] = "range" /\ workerPc'[a] = "done") =>
              /\ agentChannels[a] = << >> /\ closeCount[a] > 0
              /\ returns' = Append(returns, << a, Nil >>)

C16_State ==
    \A a \in Agents :
        workerPc[a] = "done" =>
            /\ ReturnedWith(a, Canceled) <=> removed[a] > Len(evalCalls[a])
            /\ ReturnedWith(a, Nil) <=> removed[a] = Len(evalCalls[a])

C16_NoCallAfterCancel ==
    /\ [][C16_Step]_vars
    /\ []C16_State
    /\ \A a \in 1..MaxAgents : \A n \in 0..MaxEvents :
          [](InFlightCancelled(a) /\ CallCount(a) = n => [](CallCount(a) = n))

\* The signal is set while two workers have a call in flight: one has a closed
\* and empty channel (it will return nil), the other a request still queued
\* (it will drop it and return the cancellation error).
C16_Witness ==
    \E a, b \in Agents :
        /\ InFlightCancelled(a) /\ closeCount[a] > 0 /\ agentChannels[a] = << >>
        /\ InFlightCancelled(b) /\ agentChannels[b] # << >>

(* C17: Start makes exactly one bounded channel and starts exactly one worker
   per configured agent, and no channel ever holds more requests than its
   capacity.  The capacity is the model's QueueCap (or the scenario's 2),
   standing for the 100 of the code. *)
C17_State ==
    /\ Len(agentChannels) <= numAgents
    /\ startPc # "setup" => Len(agentChannels) = numAgents
    /\ ingestPc # "unborn" => Len(agentChannels) = numAgents
    /\ \A a \in Agents : a <= Len(agentChannels) <=> workerPc[a] # "unborn"
    /\ \A a \in DOMAIN agentChannels : Len(agentChannels[a]) <= capacity
    /\ capacity = IF envMode = "free" THEN QueueCap ELSE 2

C17_Step ==
    /\ capacity' = capacity /\ numAgents' = numAgents
    /\ Len(agentChannels') >= Len(agentChannels)
    /\ Len(agentChannels') # Len(agentChannels) =>
          /\ startPc = "setup"
          /\ Len(agentChannels') = Len(agentChannels) + 1
          /\ agentChannels'[Len(agentChannels')] = << >>
    /\ \A a \in Agents :
          /\ workerPc[a] # "unborn" => workerPc'[a] # "unborn"
          /\ (workerPc[a] = "unborn" /\ workerPc'[a] # "unborn") =>
                /\ a = Len(agentChannels')
                /\ Len(agentChannels) = a - 1
                /\ workerPc'[a] = "range"

C17_OneQueueOneWorker == [][C17_Step]_vars /\ []C17_State

\* Setup is over with the largest number of agents, every worker has been
\* started, and every channel is filled to its capacity.
C17_Witness ==
    /\ startPc # "setup"
    /\ numAgents = MaxAgents
    /\ \A a \in Agents : workerPc[a] # "unborn" /\ Len(agentChannels[a]) = capacity

(* C18: if Start returns nil, the source was closed and every event it
   emitted that converts was passed to exactly one Evaluate call by the
   worker of every agent, whatever the call's outcome, and no other call was
   made.  If a worker dropped a request it had received, or the ingestion
   loop ended on a cancelled context, Start does not return nil. *)
GoodEmitted == {i \in DOMAIN emitted : ToMessage(emitted[i]).err = Nil}

DroppedRequest == \E a \in Agents : workerPc[a] = "done" /\ removed[a] > Len(evalCalls[a])

C18_SuccessMeansComplete ==
    /\ (startPc = "returned" /\ startResult = Nil) =>
          /\ txClosed /\ txChannel = << >>
          /\ \A a \in Agents :
                /\ \A i \in GoodEmitted : Cardinality(CallsFor(a, emitted[i])) = 1
                /\ Len(evalCalls[a]) = Cardinality(GoodEmitted)
                /\ removed[a] = Len(evalCalls[a])
                /\ results[a].ok + results[a].failed = Len(evalCalls[a])
                /\ agentChannels[a] = << >>
    /\ (startPc = "returned" /\ (DroppedRequest \/ ingestErr # Nil)) =>
          startResult = Canceled

\* Start returned nil although the parent context was cancelled before it
\* returned: two agents each evaluated the events that convert, one call
\* failed, and one emitted event did not convert.
C18_Witness ==
    /\ startPc = "returned" /\ startResult = Nil
    /\ parentDone
    /\ numAgents >= 2
    /\ GoodEmitted # {} /\ GoodEmitted # DOMAIN emitted
    /\ \E a \in Agents : results[a].failed >= 1

(* C19: no request is placed on a closed channel.  Only the ingestion loop
   places requests and only its deferred function closes channels; a channel
   is closed only after the loop has been left, for good, and once the
   ingestion function has returned every channel is closed, whether the loop
   ended on the closed source or on a cancelled context. *)
C19_Step ==
    /\ ingestPc \in {"closing", "done"} => ingestPc' \in {"closing", "done"}
    /\ \A a \in Agents :
          /\ placed'[a] # placed[a] =>
                /\ closeCount[a] = 0
                /\ ingestPc = "send" /\ ingestIdx = a
                /\ placed'[a] = placed[a] + 1
          /\ (a \in DOMAIN agentChannels /\ Len(agentChannels'[a]) > Len(agentChannels[a])) =>
                placed'[a] = placed[a] + 1
          /\ closeCount'[a] # closeCount[a] =>
                /\ ingestPc = "closing" /\ ingestIdx = a
                /\ closeCount'[a] = closeCount[a] + 1

C19_State ==
    /\ (\E a \in Agents : closeCount[a] > 0) => ingestPc \in {"closing", "done"}
    /\ ingestPc = "done" => \A a \in Agents : closeCount[a] = 1
    /\ ingestPc \in {"closing", "done"} =>
          \/ ingestErr = Nil /\ txClosed /\ txChannel = << >>
          \/ ingestErr = Canceled /\ Cancelled

C19_NoSendOnClosed == [][C19_Step]_vars /\ []C19_State

\* The loop ended on a cancelled context after requests had been placed, all
\* channels are closed, and a worker is still running on one of them.
C19_Witness ==
    /\ ingestPc = "done" /\ ingestErr = Canceled
    /\ numAgents >= 2
    /\ \A a \in Agents : closeCount[a] = 1 /\ placed[a] >= 1
    /\ \E a \in Agents : workerPc[a] # "done" /\ agentChannels[a] # << >>

====
